---- MODULE Spec2Model ----
(***************************************************************************)
(* Deshi Knowledge Collector: the message filter-and-persist handler and   *)
(* its two hosts, the command-line process (console_bot.py) and the        *)
(* Streamlit console with its background listener thread (app.py).         *)
(***************************************************************************)
EXTENDS Integers, Sequences, FiniteSets, TLC

\* ------------------------------------------------------------------ bounds
MaxEvents == 2      \* events delivered to a listener that is already up
MaxThreads == 2     \* listener threads one UI session creates
MaxRunEvents == 1   \* events delivered in a run of a whole program

\* ------------------------------------------------------------- constants
AppPreviewLen == 50   \* message_text[:50]
CliPreviewLen == 70   \* message_text[:70]

None == "<None>"      \* Python None / an absent key
EOF == "<EOF>"        \* input() / getpass() on a closed stdin: EOFError
DefaultTable == "slack_messages_for_sensay"
UniqueViolation == "violates unique constraint"

Hosts == {"app", "cli"}
CliListener == 0                       \* the CLI process's listener
Threads == 1..MaxThreads               \* listener threads of the UI session
ListenerIds == {CliListener} \cup Threads

Users == {"U_target", "U_other"}
Tables == {DefaultTable, "archive"}

Mandatory == <<"SLACK_BOT_TOKEN", "SLACK_APP_TOKEN", "SUPABASE_URL",
               "SUPABASE_SERVICE_KEY", "TARGET_SLACK_USER_ID">>
MandatorySet == {Mandatory[i] : i \in 1..Len(Mandatory)}
TableKey == "SUPABASE_TABLE_NAME"
ConfigKeys == MandatorySet \cup {TableKey}

\* The values an operator can supply for a setting.
ValuesOf(key) ==
    CASE key = "TARGET_SLACK_USER_ID" -> {"U_target"}
      [] key = TableKey -> Tables
      [] key = "SLACK_BOT_TOKEN" -> {"xoxb-1"}
      [] key = "SLACK_APP_TOKEN" -> {"xapp-1"}
      [] key = "SUPABASE_URL" -> {"https://db"}
      [] OTHER -> {"key-1"}

NoConfig == [k \in ConfigKeys |-> ""]

\* IncomingEvent: the fields the handler reads with event.get(...).
IncomingEvent ==
    [subtype : {None, "message_changed"},
     user : Users,
     text : {None, "", "hello"},
     channel : {"C1"},
     ts : {"T1", "T2"}]

NoEvent == [subtype |-> None, user |-> "", text |-> None, channel |-> "", ts |-> ""]
NoResp == [kind |-> "none", id |-> 0, message |-> ""]
\* A callback invocation: its listener, its event, the response to its
\* insert, where it stands, the insert calls it has made and the log
\* statements it has run.
FreeSlot == [l |-> -1, ev |-> NoEvent, pc |-> "free", resp |-> NoResp,
             calls |-> <<>>, logged |-> <<>>]

VARIABLES
    \* --- st.session_state of the UI session
    env_vars_confirmed, bot_started, bot_thread, stop_event, config,
    ui_feedback,            \* the st.error / st.warning the page is left showing
    \* --- StreamlitLogHandler
    buffer,                 \* self.buffer
    appended,               \* the messages passed to write() since the list
                            \* self.buffer names was created, in call order
    \* --- logging module records of each listener's own statements
    log,
    \* --- listener threads of the UI session
    thr,
    \* --- CLI process
    cliPc, cliIdx, cliCfg, cliExit, cliPrompted, cliBuilt,
    \* --- data store
    rows,
    \* --- callback invocations
    inv, nextInv,
    \* --- environment: host (the program that runs), events (what the
    \* transport delivers), budget (how many), storeFails (the store may
    \* answer with an error, nothing or an exception), stdoutFails
    \* (sys.__stdout__.write may raise), offered (the complete
    \* configurations the operator types into the form)
    env

uiVars == <<env_vars_confirmed, bot_started, bot_thread, stop_event, config,
            ui_feedback>>
logVars == <<buffer, appended, log>>
cliVars == <<cliPc, cliIdx, cliCfg, cliExit, cliPrompted, cliBuilt>>
invVars == <<inv, nextInv>>
vars == <<env_vars_confirmed, bot_started, bot_thread, stop_event, config,
          ui_feedback, buffer, appended, log,
          thr, cliPc, cliIdx, cliCfg, cliExit, cliPrompted, cliBuilt, rows,
          inv, nextInv, env>>

\* ------------------------------------------------------- string helpers
Min(a, b) == IF a < b THEN a ELSE b

\* s[:n]
Truncate(s, n) == SubSeq(s, 1, Min(Len(s), n))

\* sub in s
Contains(s, sub) ==
    \E i \in 1..(Len(s) - Len(sub) + 1) : SubSeq(s, i, i + Len(sub) - 1) = sub

LowerChar(c) ==
    CASE c = "A" -> "a" [] c = "B" -> "b" [] c = "C" -> "c" [] c = "D" -> "d"
      [] c = "E" -> "e" [] c = "F" -> "f" [] c = "G" -> "g" [] c = "H" -> "h"
      [] c = "I" -> "i" [] c = "J" -> "j" [] c = "K" -> "k" [] c = "L" -> "l"
      [] c = "M" -> "m" [] c = "N" -> "n" [] c = "O" -> "o" [] c = "P" -> "p"
      [] c = "Q" -> "q" [] c = "R" -> "r" [] c = "S" -> "s" [] c = "T" -> "t"
      [] c = "U" -> "u" [] c = "V" -> "v" [] c = "W" -> "w" [] c = "X" -> "x"
      [] c = "Y" -> "y" [] c = "Z" -> "z" [] OTHER -> c

\* str.lower()
RECURSIVE Lower(_)
Lower(s) ==
    IF Len(s) = 0 THEN ""
    ELSE LowerChar(SubSeq(s, 1, 1)) \o Lower(SubSeq(s, 2, Len(s)))

\* "".join(list)
RECURSIVE Join(_)
Join(list) == IF list = <<>> THEN "" ELSE Head(list) \o Join(Tail(list))

\* ------------------------------------------------- StreamlitLogHandler
\* Faulty variant of write: the newest message goes first.
write_front(buf, message) == <<message>> \o buf

\* Faulty variant of write: the list is replaced by the new message.
write_over(buf, message) == <<message>>

\* write(message): self.buffer.append(message)
write(buf, message) == Append(buf, message)

get_logs(buf) == Join(buf)

clear_logs(buf) == <<>>

RECURSIVE WriteAll(_, _)
WriteAll(buf, msgs) ==
    IF msgs = <<>> THEN buf ELSE WriteAll(write(buf, Head(msgs)), Tail(msgs))

\* ------------------------------------------------------ log statements
\* A log statement is a logger call (op = its level) or a write() to the
\* capture buffer (op = "write").
Info(m) == [op |-> "INFO", msg |-> m]
Warn(m) == [op |-> "WARNING", msg |-> m]
Err(m) == [op |-> "ERROR", msg |-> m]
Crit(m) == [op |-> "CRITICAL", msg |-> m]
Wr(m) == [op |-> "write", msg |-> m]

IsWrite(o) == o.op = "write"
IsLogger(o) == o.op # "write"

LoggerRecords(ops) ==
    LET s == SelectSeq(ops, IsLogger)
    IN [i \in 1..Len(s) |-> [level |-> s[i].op, msg |-> s[i].msg]]

WriteMsgs(ops) ==
    LET s == SelectSeq(ops, IsWrite) IN [i \in 1..Len(s) |-> s[i].msg]

\* Where a run of statements can raise: write() appends to the buffer and
\* then calls sys.__stdout__.write, which raises when stdout is unusable.
\* 0 stands for "no statement raises".
RaisePoints(ops) ==
    {0} \cup (IF env.stdoutFails THEN {i \in 1..Len(ops) : IsWrite(ops[i])} ELSE {})

\* The statements that ran when statement k raised (its append included).
Ran(ops, k) == IF k = 0 THEN ops ELSE SubSeq(ops, 1, k)

StdoutError == "stdout write failed"

\* The buffer writes among the statements that ran.
EmitWrites(ops) ==
    /\ buffer' = WriteAll(buffer, WriteMsgs(ops))
    /\ appended' = appended \o WriteMsgs(ops)

\* The statements listener l ran outside its callback.
Emit(l, ops) ==
    /\ log' = [log EXCEPT ![l] = @ \o LoggerRecords(ops)]
    /\ EmitWrites(ops)

\* ------------------------------------------------------------ listeners
Host(l) == IF l = CliListener THEN "cli" ELSE "app"

\* Faulty variant of the binding: the handler of a thread reads the
\* configuration the session holds now.
BoundToSession(l) == IF l = CliListener THEN cliCfg ELSE config

\* The RuntimeConfig a listener's handler closes over.
Bound(l) == IF l = CliListener THEN cliCfg ELSE thr[l].config

\* Faulty variant of the liveness test: a thread counts as alive only once
\* its listener is connected.
AliveOnceConnected(t) == thr[t].status = "listening"

\* bot_thread.is_alive()
Alive(t) == thr[t].status \in {"started", "listening"}

Listening(l) ==
    IF l = CliListener THEN cliPc = "listening" ELSE thr[l].status = "listening"

\* -------------------------------------------------------------- handler
\* Python truthiness of event.get("text")
Truthy(v) == v # None /\ v # ""

\* Faulty variant of the relevance test: the subtype is not looked at.
RelevantAnySubtype(event, target) ==
    /\ event.user = target
    /\ Truthy(event.text)

\* event.get("subtype") is None and event_user_id == target and message_text
Relevant(event, target) ==
    /\ event.subtype = None
    /\ event.user = target
    /\ Truthy(event.text)

\* Faulty variant of the row: the channel is left out.
data_without_channel(event) ==
    [slack_user_id |-> event.user,
     slack_channel_id |-> None,
     message_content |-> event.text,
     slack_message_ts |-> event.ts]

data_to_insert(event) ==
    [slack_user_id |-> event.user,
     slack_channel_id |-> event.channel,
     message_content |-> event.text,
     slack_message_ts |-> event.ts]

PreviewLen(h) == IF h = "app" THEN AppPreviewLen ELSE CliPreviewLen

ReceivedMsg(h, event) ==
    "Received message from target user (" \o event.user \o ") in channel ("
    \o event.channel \o "): '" \o Truncate(event.text, PreviewLen(h)) \o "...'"

\* The statements between the relevance test and the try block.
ReceivedOps(h, event) ==
    IF h = "app"
    THEN <<Info(ReceivedMsg(h, event)), Wr(ReceivedMsg(h, event) \o "\n")>>
    ELSE <<Info(ReceivedMsg(h, event))>>

\* response.data / response.error
HasData(resp) == resp.kind = "data"
HasError(resp) == resp.kind = "error"

\* Faulty variant of the duplicate test: the message must equal the phrase.
IsDuplicateExact(resp) == HasError(resp) /\ resp.message = UniqueViolation

\* "violates unique constraint" in str(response.error.message).lower()
IsDuplicate(resp) == HasError(resp) /\ Contains(Lower(resp.message), UniqueViolation)

StoredMsg(resp) == "Message successfully stored in Supabase. ID: " \o ToString(resp.id)
NoDataMsg(resp) ==
    "Supabase insert did not return data: "
    \o (IF HasError(resp) THEN resp.message ELSE "No error info")
DuplicateMsg(ts) == "Duplicate message (slack_message_ts: " \o ts \o ") not inserted."
FailedMsg(resp) == "Failed to store message in Supabase: " \o resp.message
StoreErrorMsg(e) == "Error storing message in Supabase: " \o e

\* The statements of the try block after execute() returned a response.
AppInspectOps(resp, ts) ==
    IF HasData(resp)
    THEN <<Info(StoredMsg(resp)), Wr(StoredMsg(resp) \o "\n")>>
    ELSE <<Warn(NoDataMsg(resp)), Wr("WARNING: " \o NoDataMsg(resp) \o "\n")>>
         \o (IF IsDuplicate(resp)
             THEN <<Warn(DuplicateMsg(ts)), Wr("WARNING: " \o DuplicateMsg(ts) \o "\n")>>
             ELSE <<>>)

CliInspectOps(resp, ts) ==
    IF HasData(resp)
    THEN <<Info(StoredMsg(resp))>>
    ELSE <<Warn(NoDataMsg(resp))>>
         \o (IF IsDuplicate(resp) THEN <<Warn(DuplicateMsg(ts))>>
             ELSE IF HasError(resp) THEN <<Err(FailedMsg(resp))>>
             ELSE <<>>)

InspectOps(h, resp, ts) ==
    IF h = "app" THEN AppInspectOps(resp, ts) ELSE CliInspectOps(resp, ts)

\* The statements of "except Exception as e".
ExceptOps(h, e) ==
    IF h = "app"
    THEN <<Err(StoreErrorMsg(e)), Wr("ERROR: " \o StoreErrorMsg(e) \o "\n")>>
    ELSE <<Err(StoreErrorMsg(e))>>

\* Faulty variant: a try block without an except clause.
CaughtByNothing(e) == FALSE

\* Whether the try block around the insert has a clause catching e.
CaughtByExcept(e) == TRUE

\* ---------------------------------------------------------- data store
DuplicateKeyMessage ==
    "duplicate key value violates unique constraint \"slack_message_ts_key\""

HasRow(table, ts) ==
    \E r \in rows : r.table = table /\ r.row.slack_message_ts = ts

\* What insert(row).execute() can answer: the created row's id or, for a
\* slack_message_ts the table already holds, the uniqueness violation; and,
\* when the store or the way to it fails, another error, nothing at all, or
\* a raised exception.
StoreOutcomes(table, row) ==
    (IF HasRow(table, row.slack_message_ts)
     THEN {[kind |-> "error", id |-> 0, message |-> DuplicateKeyMessage]}
     ELSE {[kind |-> "data", id |-> Cardinality(rows) + 1, message |-> ""]})
    \cup (IF env.storeFails
          THEN {[kind |-> "error", id |-> 0, message |-> "connection refused"],
                [kind |-> "empty", id |-> 0, message |-> ""],
                [kind |-> "exception", id |-> 0, message |-> "timed out"]}
          ELSE {})

\* The statements invocation i ran.
EmitInv(i, ops, next) ==
    /\ inv' = [next EXCEPT ![i].logged = @ \o ops]
    /\ EmitWrites(ops)
    /\ UNCHANGED log

\* The invocation in slot i ends: it returned (pc "done") or an exception
\* left it (pc "raised").
Ended(slots, i, pc) == [slots EXCEPT ![i].pc = pc]

\* A callback of the CLI process runs only while the process does.
Running(i) == inv[i].l = CliListener => cliPc = "listening"

\* The transport invokes the callback of a connected listener with an event:
\* handle_message_events up to the try block reads the fields, tests the
\* relevance predicate and logs the "Received message" line.
HandleFilter(l, event) ==
    /\ Listening(l)
    /\ nextInv <= env.budget
    /\ nextInv' = nextInv + 1
    /\ LET i == nextInv
           h == Host(l)
           called == [inv EXCEPT ![i] = [FreeSlot EXCEPT !.l = l, !.ev = event,
                                                         !.pc = "insert"]]
       IN IF Relevant(event, Bound(l)["TARGET_SLACK_USER_ID"])
          THEN \E k \in RaisePoints(ReceivedOps(h, event)) :
                  EmitInv(i, Ran(ReceivedOps(h, event), k),
                          IF k = 0 THEN called ELSE Ended(called, i, "raised"))
          ELSE EmitInv(i, <<>>, Ended(called, i, "done"))
    /\ UNCHANGED <<uiVars, thr, cliVars, rows, env>>

\* supabase.table(supabase_table_name).insert(data_to_insert).execute()
HandleInsert(i) ==
    /\ inv[i].pc = "insert"
    /\ Running(i)
    /\ LET table == Bound(inv[i].l)[TableKey]
           row == data_to_insert(inv[i].ev)
       IN \E resp \in StoreOutcomes(table, row) :
            /\ rows' = IF resp.kind = "data"
                       THEN rows \cup {[table |-> table, id |-> resp.id, row |-> row]}
                       ELSE rows
            /\ LET called == [inv EXCEPT ![i].resp = resp,
                                         ![i].calls = Append(@, [table |-> table,
                                                                 row |-> row]),
                                         ![i].pc = "inspect"]
               IN inv' = IF resp.kind = "exception" /\ ~CaughtByExcept(resp.message)
                         THEN Ended(called, i, "raised")
                         ELSE called
    /\ UNCHANGED <<uiVars, logVars, thr, cliVars, nextInv, env>>

\* The rest of the try block and the except clause.
HandleInspect(i) ==
    /\ inv[i].pc = "inspect"
    /\ Running(i)
    /\ LET h == Host(inv[i].l)
           resp == inv[i].resp
           tryOps == InspectOps(h, resp, inv[i].ev.ts)
       IN IF resp.kind = "exception"
          THEN \E k2 \in RaisePoints(ExceptOps(h, resp.message)) :
                  EmitInv(i, Ran(ExceptOps(h, resp.message), k2),
                          Ended(inv, i, IF k2 = 0 THEN "done" ELSE "raised"))
          ELSE \E k1 \in RaisePoints(tryOps) :
                  IF k1 = 0
                  THEN EmitInv(i, tryOps, Ended(inv, i, "done"))
                  ELSE IF CaughtByExcept(StdoutError)
                  THEN \E k2 \in RaisePoints(ExceptOps(h, StdoutError)) :
                         EmitInv(i, Ran(tryOps, k1) \o Ran(ExceptOps(h, StdoutError), k2),
                                 Ended(inv, i, IF k2 = 0 THEN "done" ELSE "raised"))
                  ELSE EmitInv(i, Ran(tryOps, k1), Ended(inv, i, "raised"))
    /\ UNCHANGED <<uiVars, thr, cliVars, rows, nextInv, env>>

\* ------------------------------------------- listener thread (app.py)
StartedMsg == "Bot thread started. Initializing Slack and Supabase clients..."
StartingMsg == "Starting SocketModeHandler..."
CleanupMsg == "Bot thread attempting to clean up and exit."

\* The statements before the try block.
ThreadPreOps == <<Info(StartedMsg), Wr(StartedMsg \o "\n")>>

\* The statements of the try block up to handler.start().
ThreadInitOps(cfg) ==
    LET a == "Supabase client initialized for URL: " \o cfg["SUPABASE_URL"]
        b == "Monitoring messages from Slack User ID: " \o cfg["TARGET_SLACK_USER_ID"]
        c == "Storing messages in Supabase table: " \o cfg[TableKey]
    IN <<Info(a), Info(b), Info(c), Wr(a \o "\n"), Wr(b \o "\n"), Wr(c \o "\n"),
         Info(StartingMsg), Wr(StartingMsg \o "\n")>>

ThreadCriticalOps(e) ==
    <<Err("Critical error in bot thread: " \o e),
      Wr("CRITICAL ERROR: Critical error in bot thread: " \o e \o "\n")>>

ThreadFinallyOps == <<Info(CleanupMsg), Wr(CleanupMsg \o "\n")>>

\* How constructing the clients can end: both built and the listener goes
\* on to block in handler.start(), or App()/create_client() raises.
StartOutcomes == {"connected", "clients_failed"}
ClientsError == "invalid_auth"
TransportError == "connection lost"

\* start_slack_bot_listener from its first statement to the blocking
\* handler.start(), with its except and finally clauses.
ThreadInitialize(t) ==
    /\ thr[t].status = "started"
    /\ \E k0 \in RaisePoints(ThreadPreOps) :
         IF k0 # 0
         THEN /\ Emit(t, Ran(ThreadPreOps, k0))
              /\ thr' = [thr EXCEPT ![t].status = "dead"]
         ELSE \E o \in StartOutcomes :
              LET tryOps == IF o = "clients_failed" THEN <<>>
                            ELSE ThreadInitOps(thr[t].config)
              IN \E k1 \in RaisePoints(tryOps) :
                   IF k1 = 0 /\ o = "connected"
                   THEN /\ Emit(t, ThreadPreOps \o tryOps)
                        /\ thr' = [thr EXCEPT ![t].status = "listening"]
                   ELSE LET e == IF k1 # 0 THEN StdoutError ELSE ClientsError
                        IN \E k2 \in RaisePoints(ThreadCriticalOps(e)),
                              k3 \in RaisePoints(ThreadFinallyOps) :
                             /\ Emit(t, ThreadPreOps \o Ran(tryOps, k1)
                                        \o Ran(ThreadCriticalOps(e), k2)
                                        \o Ran(ThreadFinallyOps, k3))
                             /\ thr' = [thr EXCEPT ![t].status = "dead"]
    /\ UNCHANGED <<uiVars, cliVars, rows, invVars, env>>

\* Faulty variant of the listener's failure: after logging, the thread
\* builds its clients and connects again.
ListenerRetry(t) ==
    /\ thr[t].status = "listening"
    /\ Emit(t, ThreadCriticalOps(TransportError))
    /\ thr' = [thr EXCEPT ![t].status = "started"]
    /\ UNCHANGED <<uiVars, cliVars, rows, invVars, env>>

\* The blocking handler.start() raises: except, finally, the thread ends.
ListenerFail(t) ==
    /\ thr[t].status = "listening"
    /\ \E k2 \in RaisePoints(ThreadCriticalOps(TransportError)),
          k3 \in RaisePoints(ThreadFinallyOps) :
         Emit(t, Ran(ThreadCriticalOps(TransportError), k2)
                 \o Ran(ThreadFinallyOps, k3))
    /\ thr' = [thr EXCEPT ![t].status = "dead"]
    /\ UNCHANGED <<uiVars, cliVars, rows, invVars, env>>

\* ------------------------------------------------ Streamlit UI (app.py)
\* st.success / st.info / st.warning calls that st.rerun() follows at once are
\* wiped by the rerun; ui_feedback holds what the finished run leaves on the
\* page.
Falsy == {None, ""}

\* A RuntimeConfig with every mandatory setting supplied.
Configs ==
    {[k \in ConfigKeys |-> IF k = TableKey THEN t ELSE CHOOSE v \in ValuesOf(k) : TRUE] :
       t \in Tables}

\* Every complete RuntimeConfig an operator can type.
AllConfigs ==
    {[k \in ConfigKeys |-> IF k = TableKey THEN t
                           ELSE IF k = "TARGET_SLACK_USER_ID" THEN u
                           ELSE CHOOSE v \in ValuesOf(k) : TRUE] :
       t \in Tables, u \in Users}

\* What the six text inputs can hold when the form is submitted: one of the
\* operator's configurations with no field, any one field (the table name
\* included) or all mandatory fields left empty.
FormInputs ==
    {[k \in ConfigKeys |-> IF k \in empty THEN "" ELSE c[k]] :
       c \in env.offered,
       empty \in {{}, MandatorySet} \cup {{k} : k \in ConfigKeys}}

\* Faulty variant of the validation: the target user is not looked at.
MissingCredentials(form) ==
    {k \in MandatorySet \ {"TARGET_SLACK_USER_ID"} : form[k] = ""}

\* missing.append(...) for each empty mandatory field
MissingFields(form) == {k \in MandatorySet : form[k] = ""}

\* "Save Configuration" submitted with the form's six fields.
SaveConfiguration ==
    /\ env.host = "app"
    /\ ~env_vars_confirmed
    /\ \E form \in FormInputs :
         /\ IF MissingFields(form) # {}
            THEN /\ ui_feedback' = "error: Please fill in all required fields"
                 /\ UNCHANGED <<config, env_vars_confirmed>>
            ELSE /\ config' = [form EXCEPT ![TableKey] =
                                  IF @ = "" THEN DefaultTable ELSE @]
                 /\ env_vars_confirmed' = TRUE
                 /\ ui_feedback' = "none"
    /\ UNCHANGED <<bot_started, bot_thread, stop_event, logVars, thr, cliVars, rows,
                   invVars, env>>

\* Faulty variant of the start guard: the thread is never looked at.
NoThreadCheck == TRUE

\* bot_thread is None or not bot_thread.is_alive()
NoLiveThread == bot_thread = 0 \/ ~Alive(bot_thread)

\* The next Thread object the session creates.
NewThread == CHOOSE t \in Threads :
                 thr[t].status = "unstarted"
                 /\ \A u \in Threads : u < t => thr[u].status # "unstarted"

\* The log section of a script run: the text the log area is given.
LogDisplayContent ==
    IF bot_started THEN get_logs(buffer)
    ELSE IF get_logs(buffer) # "" THEN get_logs(buffer)
    ELSE "Bot not started or no logs yet."

\* "Start Bot Listener" pressed.
StartBot ==
    /\ env_vars_confirmed
    /\ ~bot_started
    /\ IF NoLiveThread
       THEN /\ \E t \in Threads : thr[t].status = "unstarted"
            /\ buffer' = clear_logs(buffer)
            /\ appended' = <<>>
            /\ stop_event' = FALSE
            /\ thr' = [thr EXCEPT ![NewThread] = [status |-> "started", config |-> config]]
            /\ bot_thread' = NewThread
            /\ bot_started' = TRUE
            /\ ui_feedback' = "none"
            /\ UNCHANGED log
       ELSE /\ ui_feedback' = "warning: Bot thread seems to be already running"
            /\ UNCHANGED <<logVars, stop_event, thr, bot_thread, bot_started>>
    /\ UNCHANGED <<env_vars_confirmed, config, cliVars, rows, invVars, env>>

ResetOps == <<Wr("UI Stop requested. Resetting configuration.\n")>>

\* Faulty variant of the reset: the session also forgets its thread.
ResetForgettingThread ==
    /\ env_vars_confirmed
    /\ bot_started
    /\ stop_event' = TRUE
    /\ bot_started' = FALSE
    /\ env_vars_confirmed' = FALSE
    /\ bot_thread' = 0
    /\ EmitWrites(ResetOps)
    /\ ui_feedback' = "none"
    /\ UNCHANGED <<config, log, thr, cliVars, rows, invVars, env>>

\* Faulty variant of the reset: bot_started is left as it is.
ResetKeepingStarted ==
    /\ env_vars_confirmed
    /\ bot_started
    /\ stop_event' = TRUE
    /\ env_vars_confirmed' = FALSE
    /\ EmitWrites(ResetOps)
    /\ ui_feedback' = "none"
    /\ UNCHANGED <<bot_started, bot_thread, config, log, thr, cliVars, rows, invVars,
                   env>>

\* "Reset Configuration" pressed.
ResetConfiguration ==
    /\ env_vars_confirmed
    /\ bot_started
    /\ stop_event' = TRUE
    /\ bot_started' = FALSE
    /\ env_vars_confirmed' = FALSE
    /\ \E k \in RaisePoints(ResetOps) :
         /\ EmitWrites(Ran(ResetOps, k))
         /\ ui_feedback' = IF k = 0 THEN "none" ELSE "exception: " \o StdoutError
    /\ UNCHANGED <<bot_thread, config, log, thr, cliVars, rows, invVars, env>>

\* A script run with no button pressed (the 2 s refresh included): the log
\* section is redrawn.
LogDisplay ==
    /\ env_vars_confirmed
    /\ ui_feedback' = IF bot_started /\ bot_thread # 0 /\ ~Alive(bot_thread)
                      THEN "warning: Bot thread appears to have stopped unexpectedly"
                      ELSE "none"
    /\ UNCHANGED <<env_vars_confirmed, bot_started, bot_thread, stop_event, config,
                   logVars, thr, cliVars, rows, invVars, env>>

\* ------------------------------------------- CLI host (console_bot.py)
\* Faulty variant of get_env_variable: an empty answer is taken as the value.
get_env_variable_lenient(envValue, typed) ==
    IF envValue \notin Falsy THEN [value |-> envValue, exit |-> 0, logged |-> FALSE]
    ELSE IF typed = EOF THEN [value |-> "", exit |-> 1, logged |-> FALSE]
    ELSE [value |-> typed, exit |-> 0, logged |-> FALSE]

\* get_env_variable: the environment's value, else the prompt's answer,
\* else sys.exit(1); an unreadable prompt ends the process with EOFError.
get_env_variable(envValue, typed) ==
    IF envValue \notin Falsy THEN [value |-> envValue, exit |-> 0, logged |-> FALSE]
    ELSE IF typed = EOF THEN [value |-> "", exit |-> 1, logged |-> FALSE]
    ELSE IF typed = "" THEN [value |-> "", exit |-> 1, logged |-> TRUE]
    ELSE [value |-> typed, exit |-> 0, logged |-> FALSE]

\* run_bot resolving the next mandatory setting.
GetEnvVariable ==
    /\ cliPc = "config"
    /\ cliIdx <= Len(Mandatory)
    /\ LET key == Mandatory[cliIdx]
       IN \E envValue \in Falsy \cup ValuesOf(key),
             typed \in {EOF, ""} \cup ValuesOf(key) :
            LET r == get_env_variable(envValue, typed)
            IN /\ envValue \notin Falsy => typed = EOF
               /\ cliPrompted' = (cliPrompted \/ envValue \in Falsy)
               /\ IF r.exit # 0
                  THEN /\ cliPc' = "exited"
                       /\ cliExit' = r.exit
                       /\ Emit(CliListener,
                               IF r.logged
                               THEN <<Err("Required configuration '" \o key
                                          \o "' was not provided. Exiting.")>>
                               ELSE <<>>)
                       /\ UNCHANGED <<cliCfg, cliIdx>>
                  ELSE /\ cliCfg' = [cliCfg EXCEPT ![key] = r.value]
                       /\ cliIdx' = cliIdx + 1
                       /\ UNCHANGED <<cliPc, cliExit, logVars>>
    /\ UNCHANGED <<uiVars, thr, cliBuilt, rows, invVars, env>>

\* os.getenv("SUPABASE_TABLE_NAME"), else input(...) or the default.
ResolveTableName ==
    /\ cliPc = "config"
    /\ cliIdx = Len(Mandatory) + 1
    /\ \E envValue \in Falsy \cup Tables, typed \in {EOF, ""} \cup Tables :
         /\ envValue \notin Falsy => typed = EOF
         /\ IF envValue \notin Falsy
            THEN /\ cliCfg' = [cliCfg EXCEPT ![TableKey] = envValue]
                 /\ cliPc' = "construct"
                 /\ UNCHANGED cliExit
            ELSE IF typed = EOF
            THEN /\ cliPc' = "exited"
                 /\ cliExit' = 1
                 /\ UNCHANGED cliCfg
            ELSE /\ cliCfg' = [cliCfg EXCEPT ![TableKey] =
                                  IF typed = "" THEN DefaultTable ELSE typed]
                 /\ cliPc' = "construct"
                 /\ UNCHANGED cliExit
    /\ UNCHANGED <<uiVars, logVars, thr, cliIdx, cliPrompted, cliBuilt, rows, invVars,
                   env>>

CliPreOps == <<Info("Initializing Deshi Knowledge Collector Bot...")>>

CliInitOps(cfg) ==
    <<Info("Supabase client initialized for URL: " \o cfg["SUPABASE_URL"]),
      Info("Monitoring messages from Slack User ID: " \o cfg["TARGET_SLACK_USER_ID"]),
      Info("Storing messages in Supabase table: " \o cfg[TableKey]),
      Info("Connecting to Slack via Socket Mode...")>>

CliShutdownOps(e) ==
    <<Crit("A critical error occurred: " \o e),
      Info("Bot has shut down or encountered a critical error.")>>

\* run_bot from "Initializing..." to the blocking socket_handler.start().
CliConstruct ==
    /\ cliPc = "construct"
    /\ cliBuilt' = TRUE
    /\ \E o \in StartOutcomes :
         IF o = "connected"
         THEN /\ Emit(CliListener, CliPreOps \o CliInitOps(cliCfg))
              /\ cliPc' = "listening"
              /\ UNCHANGED cliExit
         ELSE /\ Emit(CliListener, CliPreOps \o CliShutdownOps(ClientsError))
              /\ cliPc' = "exited"
              /\ cliExit' = 0
    /\ UNCHANGED <<uiVars, thr, cliIdx, cliCfg, cliPrompted, rows, invVars, env>>

\* The blocking socket_handler.start() raises: the process logs and ends.
CliListenerFail ==
    /\ cliPc = "listening"
    /\ Emit(CliListener, CliShutdownOps(TransportError))
    /\ cliPc' = "exited"
    /\ cliExit' = 0
    /\ UNCHANGED <<uiVars, thr, cliIdx, cliCfg, cliPrompted, cliBuilt, rows, invVars,
                   env>>

\* ------------------------------------------------------- specification
\* The events a run of a whole program is given: one that passes the
\* relevance test of a listener for U_target and one that does not.
SampleEvents ==
    {[subtype |-> None, user |-> "U_target", text |-> "hello", channel |-> "C1",
      ts |-> "T1"],
     [subtype |-> "message_changed", user |-> "U_target", text |-> "hello",
      channel |-> "C1", ts |-> "T1"]}

\* The state a program starts in.
Fresh(h) ==
    /\ env_vars_confirmed = FALSE
    /\ bot_started = FALSE
    /\ bot_thread = 0
    /\ stop_event = FALSE
    /\ config = NoConfig
    /\ ui_feedback = "none"
    /\ buffer = <<>>
    /\ appended = <<>>
    /\ log = [l \in ListenerIds |-> <<>>]
    /\ thr = [t \in Threads |-> [status |-> "unstarted", config |-> NoConfig]]
    /\ cliPc = IF h = "cli" THEN "config" ELSE "off"
    /\ cliIdx = 1
    /\ cliCfg = NoConfig
    /\ cliExit = -1
    /\ cliPrompted = FALSE
    /\ cliBuilt = FALSE
    /\ rows = {}
    /\ inv = [i \in 1..env.budget |-> FreeSlot]
    /\ nextInv = 1

\* The state of program h once its listener is up: the configuration cfg
\* saved and the thread started from the UI, or resolved by the CLI, the
\* clients built, handler.start() blocking.
Up(h, cfg) ==
    /\ env_vars_confirmed = (h = "app")
    /\ bot_started = (h = "app")
    /\ bot_thread = IF h = "app" THEN 1 ELSE 0
    /\ stop_event = FALSE
    /\ config = IF h = "app" THEN cfg ELSE NoConfig
    /\ ui_feedback = "none"
    /\ buffer = IF h = "app" THEN WriteMsgs(ThreadPreOps \o ThreadInitOps(cfg)) ELSE <<>>
    /\ appended = buffer
    /\ log = [l \in ListenerIds |->
                IF h = "app" /\ l = 1 THEN LoggerRecords(ThreadPreOps \o ThreadInitOps(cfg))
                ELSE IF h = "cli" /\ l = CliListener
                THEN LoggerRecords(CliPreOps \o CliInitOps(cfg))
                ELSE <<>>]
    /\ thr = [t \in Threads |->
                IF h = "app" /\ t = 1 THEN [status |-> "listening", config |-> cfg]
                ELSE [status |-> "unstarted", config |-> NoConfig]]
    /\ cliPc = IF h = "cli" THEN "listening" ELSE "off"
    /\ cliIdx = IF h = "cli" THEN Len(Mandatory) + 1 ELSE 1
    /\ cliCfg = IF h = "cli" THEN cfg ELSE NoConfig
    /\ cliExit = -1
    /\ cliPrompted = FALSE
    /\ cliBuilt = (h = "cli")
    /\ rows = {}
    /\ inv = [i \in 1..env.budget |-> FreeSlot]
    /\ nextInv = 1

\* Either program with its listener up, any event may arrive, the store may
\* fail; stdout is usable.
InitHandler ==
    /\ env \in [host : Hosts, events : {IncomingEvent}, budget : {MaxEvents},
                storeFails : {TRUE}, stdoutFails : {FALSE}, offered : {Configs}]
    /\ \E cfg \in Configs : Up(env.host, cfg)

\* The same with a stdout whose write may raise.
InitFault ==
    /\ env \in [host : Hosts, events : {IncomingEvent}, budget : {MaxEvents},
                storeFails : {TRUE}, stdoutFails : {TRUE}, offered : {Configs}]
    /\ \E cfg \in Configs : Up(env.host, cfg)

\* Either program from its start, with a store that answers and a usable
\* stdout.
Init ==
    /\ env \in [host : Hosts, events : {SampleEvents}, budget : {MaxRunEvents},
                storeFails : {FALSE}, stdoutFails : {FALSE}, offered : {Configs}]
    /\ Fresh(env.host)

\* The configurations of an operator who, after a reset, changes the target
\* user.
Reconfigured == {c \in AllConfigs : c[TableKey] = DefaultTable}

\* The UI program from its start, with that operator and one well-formed
\* event of each user.
InitReconfig ==
    /\ env \in [host : {"app"},
                events : {{e \in IncomingEvent :
                             e.subtype = None /\ e.text = "hello" /\ e.ts = "T1"}},
                budget : {MaxRunEvents}, storeFails : {FALSE},
                stdoutFails : {FALSE}, offered : {Reconfigured}]
    /\ Fresh(env.host)

UiLifecycle ==
    \/ SaveConfiguration
    \/ StartBot
    \/ ResetConfiguration
    \/ LogDisplay
    \/ \E t \in Threads : ThreadInitialize(t)
    \/ \E t \in Threads : ListenerFail(t)

CliLifecycle ==
    \/ GetEnvVariable
    \/ ResolveTableName
    \/ CliConstruct
    \/ CliListenerFail

Lifecycle == UiLifecycle \/ CliLifecycle

Handler ==
    \/ \E l \in ListenerIds, event \in env.events : HandleFilter(l, event)
    \/ \E i \in 1..env.budget : HandleInsert(i)
    \/ \E i \in 1..env.budget : HandleInspect(i)

Next == Lifecycle \/ Handler

Spec == Init /\ [][Next]_vars

\* The handler of a listener that is up.
SpecHandler == InitHandler /\ [][Handler]_vars

SpecFault == InitFault /\ [][Handler]_vars

\* The UI program with an operator who reconfigures it.
SpecReconfig == InitReconfig /\ [][UiLifecycle \/ Handler]_vars

\* ----------------------------------------------------------- properties
Slots == DOMAIN inv
Invoked(i) == inv[i].pc # "free"
Returned(i) == inv[i].pc = "done"

\* The user a listener's handler was configured for, and its table.
TargetOf(i) == Bound(inv[i].l)["TARGET_SLACK_USER_ID"]
TableOf(i) == Bound(inv[i].l)[TableKey]

\* The relevance predicate as the specification words it.
FailsPredicate(event, target) ==
    \/ event.subtype # None
    \/ event.user # target
    \/ event.text = None
    \/ event.text = ""
PassesPredicate(event, target) == ~FailsPredicate(event, target)

Levels(ops) == {ops[k].op : k \in 1..Len(ops)}

\* C1: an event with a subtype, from another user than the target, or with
\* absent or empty text makes the callback return having made no insert call
\* and having run no log statement, in either host.
C1_IrrelevantIgnored ==
    \A i \in Slots :
       (Invoked(i) /\ FailsPredicate(inv[i].ev, TargetOf(i))) =>
          /\ Returned(i)
          /\ inv[i].calls = <<>>
          /\ inv[i].logged = <<>>

\* Two callbacks have returned, one on an event with a subtype and one on an
\* event of another user, both otherwise well formed.
C1_Witness ==
    \E i, j \in Slots :
       /\ Returned(i) /\ Returned(j)
       /\ inv[i].ev.subtype # None /\ inv[i].ev.user = TargetOf(i)
       /\ inv[i].ev.text = "hello"
       /\ inv[j].ev.subtype = None /\ inv[j].ev.user # TargetOf(j)
       /\ inv[j].ev.text = "hello"

\* The insert call the specification asks for on event ev of invocation i.
ExpectedCall(i) ==
    [table |-> TableOf(i),
     row |-> [slack_user_id |-> inv[i].ev.user,
              slack_channel_id |-> inv[i].ev.channel,
              message_content |-> inv[i].ev.text,
              slack_message_ts |-> inv[i].ev.ts]]

\* The callback has got past its insert call.
Processed(i) == inv[i].pc \in {"inspect", "done"}

\* C2: every relevant event the callback has processed made exactly one
\* insert call, on the configured table, with a row whose four fields are the
\* event's user, channel, text and ts; no other invocation made any, so the
\* insert calls are as many as the relevant events processed; and every
\* stored row is the row of such a call.
C2_OneInsertPerRelevant ==
    /\ \A i \in Slots :
          inv[i].calls = IF Invoked(i) /\ PassesPredicate(inv[i].ev, TargetOf(i))
                            /\ Processed(i)
                         THEN <<ExpectedCall(i)>>
                         ELSE <<>>
    /\ \A r \in rows :
          \E i \in Slots : inv[i].calls = <<[table |-> r.table, row |-> r.row]>>

\* Two relevant events with the same ts, the same event delivered twice, have
\* both been processed: each made its own insert call.
C2_Witness ==
    \E i, j \in Slots :
       /\ i # j
       /\ Returned(i) /\ Returned(j)
       /\ inv[i].ev = inv[j].ev
       /\ Len(inv[i].calls) = 1 /\ Len(inv[j].calls) = 1
       /\ rows # {}

\* The response is the store's uniqueness violation.
AnswersDuplicate(i) ==
    inv[i].resp.kind = "error" /\ inv[i].resp.message = DuplicateKeyMessage

\* C3: a table holds at most one row per slack_message_ts; a callback whose
\* insert was answered with the uniqueness violation returns having logged a
\* warning that names the ts and nothing at error level, and the table still
\* holds the one row of that ts.
C3_UniquePerTs ==
    /\ \A r1, r2 \in rows :
          (r1.table = r2.table /\ r1.row.slack_message_ts = r2.row.slack_message_ts)
             => r1 = r2
    /\ \A i \in Slots :
          (Returned(i) /\ AnswersDuplicate(i)) =>
             /\ \E k \in 1..Len(inv[i].logged) :
                   /\ inv[i].logged[k].op = "WARNING"
                   /\ inv[i].logged[k].msg =
                         "Duplicate message (slack_message_ts: " \o inv[i].ev.ts
                         \o ") not inserted."
             /\ Levels(inv[i].logged) \cap {"ERROR", "CRITICAL"} = {}
             /\ Cardinality({r \in rows : r.table = TableOf(i)
                                /\ r.row.slack_message_ts = inv[i].ev.ts}) = 1

\* A callback has returned from an insert answered with the uniqueness
\* violation, after another one stored the row of the same ts.
C3_Witness ==
    \E i, j \in Slots :
       /\ Returned(i) /\ AnswersDuplicate(i)
       /\ Returned(j) /\ inv[j].resp.kind = "data"
       /\ inv[j].ev.ts = inv[i].ev.ts

\* The insert ended in another way than a stored row or the uniqueness
\* violation: another error, no data and no error, or an exception.
OtherFailure(i) ==
    /\ inv[i].resp.kind \in {"error", "empty", "exception"}
    /\ ~AnswersDuplicate(i)

\* C4: every callback whose insert ended in another error, an empty response
\* or an exception has, once it returned, logged at error level.
C4_OtherFailuresLoggedAsErrors ==
    \A i \in Slots :
       (OtherFailure(i) /\ inv[i].pc \notin {"insert", "inspect"}) =>
          /\ Returned(i)
          /\ "ERROR" \in Levels(inv[i].logged)

\* The insert of invocation i failed in any way.
Failed(i) == inv[i].resp.kind \in {"error", "empty", "exception"}

\* C5: a failed insert does not leave the callback as an exception, the
\* listener that ran it is still listening and still takes events, and every
\* relevant event delivered after it gets its own insert call.
C5_FailureDoesNotStopListener ==
    \A i \in Slots :
       Failed(i) =>
          /\ inv[i].pc \in {"inspect", "done"}
          /\ Listening(inv[i].l)
          /\ nextInv <= env.budget =>
                ENABLED (\E event \in env.events : HandleFilter(inv[i].l, event))
          /\ \A j \in Slots :
                (j > i /\ inv[j].l = inv[i].l) =>
                   /\ inv[j].pc = "insert" => ENABLED HandleInsert(j)
                   /\ (Processed(j) /\ PassesPredicate(inv[j].ev, TargetOf(j)))
                         => Len(inv[j].calls) = 1

\* An insert raised, its callback returned, and the next relevant event of
\* the same listener was stored.
C5_Witness ==
    \E i, j \in Slots :
       /\ i < j
       /\ Returned(i) /\ inv[i].resp.kind = "exception"
       /\ Returned(j) /\ inv[j].resp.kind = "data"
       /\ inv[j].l = inv[i].l
       /\ \E r \in rows : r.row = ExpectedCall(j).row

\* C6: no exception leaves the callback: every invocation that ended
\* returned.
C6_NothingEscapesCallback ==
    \A i \in Slots : inv[i].pc # "raised"

\* C7: the command-line process never goes past a mandatory value that is
\* still missing once the environment and the prompt have been asked: each of
\* the five values it went past is non-empty, and a run that stopped at one
\* exited with status 1 without having built a client or run a callback.
C7_MissingValueExits ==
    /\ \A n \in 1..Len(Mandatory) : n < cliIdx => cliCfg[Mandatory[n]] # ""
    /\ cliBuilt => cliIdx = Len(Mandatory) + 1
    /\ (cliPc = "exited" /\ cliIdx <= Len(Mandatory)) =>
          /\ cliExit = 1
          /\ ~cliBuilt
          /\ \A i \in Slots : ~Invoked(i)

\* C7 as stated: once a mandatory value was found absent from the
\* environment, the process has exited with a non-zero status and built no
\* client.
C7_AbsentValueExits ==
    cliPrompted => (cliPc = "exited" /\ cliExit > 0 /\ ~cliBuilt)

\* The process exited at the third value, SUPABASE_URL, absent from the
\* environment and left empty at the prompt, the first two being supplied.
C7_Witness ==
    /\ cliPc = "exited"
    /\ cliExit = 1
    /\ Mandatory[cliIdx] = "SUPABASE_URL"
    /\ cliPrompted
    /\ cliCfg["SLACK_BOT_TOKEN"] # ""
    /\ log[CliListener] # <<>>

LiveThreads == {t \in Threads : thr[t].status \in {"started", "listening"}}
AlreadyRunning == "warning: Bot thread seems to be already running"

\* C8: a session never has two live listener threads; a thread is started
\* only in a step that begins with none alive; and the step in which the
\* start control answers "already running" begins with a live thread and
\* changes neither the threads, the session state, the buffer nor the store.
C8_AtMostOneLiveThread ==
    /\ [](Cardinality(LiveThreads) <= 1)
    /\ [][(\E t \in Threads : thr[t].status = "unstarted" /\ thr'[t].status # "unstarted")
            => LiveThreads = {}]_vars
    /\ [][(ui_feedback # AlreadyRunning /\ ui_feedback' = AlreadyRunning)
            => /\ bot_thread \in LiveThreads
               /\ UNCHANGED <<env_vars_confirmed, bot_started, bot_thread, stop_event,
                              config, buffer, appended, log, thr, rows, inv, nextInv>>]_vars

\* The start control was pressed after a reset while the thread of the
\* earlier start was still alive.
C8_Witness ==
    /\ ui_feedback = AlreadyRunning
    /\ bot_thread \in LiveThreads
    /\ env_vars_confirmed
    /\ ~bot_started
    /\ stop_event

ResetLine == "UI Stop requested. Resetting configuration.\n"

\* C9: the step that takes bot_started from true to false, the reset, sets
\* the stop signal, clears env_vars_confirmed, appends one line to the buffer
\* and leaves the thread reference, every thread, the configuration, the
\* store and the callbacks as they were; and a listening thread takes events
\* whatever the stop signal says.
C9_ResetTouchesOnlyFlags ==
    /\ [][(bot_started /\ ~bot_started')
            => /\ stop_event'
               /\ ~env_vars_confirmed'
               /\ buffer' = Append(buffer, ResetLine)
               /\ UNCHANGED <<bot_thread, config, thr, log, rows, inv, nextInv,
                              cliVars>>]_vars
    /\ [](\A t \in Threads :
             (thr[t].status = "listening" /\ nextInv <= env.budget)
                => ENABLED (\E event \in env.events : HandleFilter(t, event)))

\* After a reset, with the stop signal set, the thread received a relevant
\* event and stored it.
C9_Witness ==
    /\ stop_event
    /\ ~bot_started
    /\ bot_thread \in LiveThreads
    /\ rows # {}
    /\ \E k \in 1..(Len(buffer) - 1) :
          /\ buffer[k] = ResetLine
          /\ \E e \in env.events : buffer[k + 1] = ReceivedMsg("app", e) \o "\n"

\* The messages of a sequence put end to end, last one last.
RECURSIVE InOrder(_)
InOrder(msgs) ==
    IF Len(msgs) = 0 THEN ""
    ELSE InOrder(SubSeq(msgs, 1, Len(msgs) - 1)) \o msgs[Len(msgs)]

\* C10: whatever the thread, its callbacks and the foreground have written
\* to the buffer since it was created, in whatever interleaving, get_logs
\* returns exactly these messages, each whole, in the order the writes
\* completed.
C10_LogsInWriteOrder ==
    /\ buffer = appended
    /\ get_logs(buffer) = InOrder(appended)

\* The thread's start-up lines, a callback's lines and the foreground's reset
\* line are all in the buffer, the reset line between the thread's and the
\* callback's; the thread is alive.
C10_Witness ==
    /\ bot_thread \in LiveThreads
    /\ Len(appended) >= 7
    /\ \E j, k \in 1..Len(appended) :
          /\ 1 < j /\ j < k
          /\ appended[1] = StartedMsg \o "\n"
          /\ appended[j] = ResetLine
          /\ appended[k] = "Message successfully stored in Supabase. ID: 1\n"

\* A RuntimeConfig with its five mandatory fields and its table name
\* non-empty.
Complete(cfg) == \A k \in ConfigKeys : cfg[k] # ""

ValidationError == "error: Please fill in all required fields"

\* C11: the step in which the form answers with the validation message
\* leaves env_vars_confirmed false and the stored config as it was; a step
\* that confirms the configuration stores a complete one, whose table name is
\* the default when the field was empty; and every thread that was ever
\* started was given a complete configuration.
C11_OnlyCompleteConfigs ==
    /\ [][(ui_feedback # ValidationError /\ ui_feedback' = ValidationError)
            => (~env_vars_confirmed' /\ UNCHANGED <<env_vars_confirmed, config>>)]_vars
    /\ [][(~env_vars_confirmed /\ env_vars_confirmed') => Complete(config')]_vars
    /\ [](env_vars_confirmed => Complete(config))
    /\ [](\A t \in Threads : thr[t].status # "unstarted" => Complete(thr[t].config))

\* After a thread was started with the default table name and the
\* configuration was reset, a form with an empty field was refused.
C11_Witness ==
    /\ ui_feedback = ValidationError
    /\ ~env_vars_confirmed
    /\ \E t \in Threads :
          thr[t].status # "unstarted" /\ thr[t].config[TableKey] = DefaultTable

\* The listener of l has logged the failure e at error level or above.
LoggedFatal(l, prefix, e) ==
    \E k \in 1..Len(log[l]) :
       /\ log[l][k].level \in {"ERROR", "CRITICAL"}
       /\ log[l][k].msg = prefix \o e

Stopped == "warning: Bot thread appears to have stopped unexpectedly"

\* C12: a listener thread that ended has logged the error of its clients or
\* of handler.start() and stays ended; a CLI process that built its clients
\* and exited has logged it and stays exited; and a thread leaves the
\* unstarted state only in the step of a start action, the one that takes
\* bot_started from false to true.
C12_TransportErrorIsFatal ==
    /\ [](\A t \in Threads :
             thr[t].status = "dead" =>
                \E e \in {ClientsError, TransportError} :
                   LoggedFatal(t, "Critical error in bot thread: ", e))
    /\ []((cliPc = "exited" /\ cliBuilt) =>
             \E e \in {ClientsError, TransportError} :
                LoggedFatal(CliListener, "A critical error occurred: ", e))
    /\ [][\A t \in Threads : thr[t].status = "dead" => thr'[t].status = "dead"]_vars
    /\ [][cliPc = "exited" => cliPc' = "exited"]_vars
    /\ [][\A t \in Threads :
             (thr[t].status # thr'[t].status /\ thr'[t].status = "started")
                => (thr[t].status = "unstarted" /\ ~bot_started /\ bot_started'
                    /\ bot_thread' = t)]_vars

\* The only thread the session started has ended on an error of
\* handler.start(), and the page says so; no other thread was started.
C12_Witness ==
    /\ thr[1].status = "dead"
    /\ LoggedFatal(1, "Critical error in bot thread: ", TransportError)
    /\ \A t \in Threads : t # 1 => thr[t].status = "unstarted"
    /\ bot_started
    /\ ui_feedback = Stopped

\* The configuration listener l was started with.
StartedWith(l) == IF l = CliListener THEN cliCfg ELSE thr[l].config

\* C13: the configuration a live thread was started with never changes, and
\* every callback has used it: an event that fails the relevance test for
\* that configuration's target user made no insert call and no log entry,
\* and a processed event that passes it made its one insert call on that
\* configuration's table, whatever was saved, reset or started meanwhile.
C13_BoundConfigIsFixed ==
    /\ [][\A t \in Threads :
             thr[t].status \in {"started", "listening"}
                => thr'[t].config = thr[t].config]_vars
    /\ [](\A i \in Slots :
             Invoked(i) =>
                LET cfg == StartedWith(inv[i].l)
                IN IF FailsPredicate(inv[i].ev, cfg["TARGET_SLACK_USER_ID"])
                   THEN inv[i].calls = <<>> /\ inv[i].logged = <<>>
                   ELSE Processed(i) =>
                          /\ Len(inv[i].calls) = 1
                          /\ inv[i].calls[1].table = cfg[TableKey]
                          /\ inv[i].calls[1].row.slack_user_id
                                = cfg["TARGET_SLACK_USER_ID"])

\* The session holds a configuration for U_other, saved after a reset, while
\* the live thread, started for U_target, has stored a message of U_target
\* it received after the reset.
C13_Witness ==
    /\ bot_thread \in LiveThreads
    /\ thr[bot_thread].config["TARGET_SLACK_USER_ID"] = "U_target"
    /\ env_vars_confirmed
    /\ config["TARGET_SLACK_USER_ID"] = "U_other"
    /\ \E r \in rows : r.row.slack_user_id = "U_target"
    /\ \E j, k \in 1..Len(buffer) :
          /\ j < k
          /\ buffer[j] = ResetLine
          /\ \E e \in env.events :
                e.user = "U_target" /\ buffer[k] = ReceivedMsg("app", e) \o "\n"

OtherHost(h) == IF h = "app" THEN "cli" ELSE "app"

\* The logger calls the handler of host h makes on a relevant event whose
\* insert was answered with resp.
HandlerStatements(h, event, resp) ==
    ReceivedOps(h, event)
    \o (IF resp.kind = "exception" THEN ExceptOps(h, resp.message)
        ELSE InspectOps(h, resp, event.ts))

SeverityClasses(ops) == {ops[k].op : k \in {n \in 1..Len(ops) : IsLogger(ops[n])}}

\* C14: whatever the event and the store's answer, the callback that ran
\* logged at the same severity classes as the other host's handler does on
\* the same event and answer (both make the same insert call).
C14_HandlersAgree ==
    \A i \in Slots :
       (Returned(i) /\ inv[i].calls # <<>>) =>
          SeverityClasses(inv[i].logged)
             = SeverityClasses(HandlerStatements(OtherHost(Host(inv[i].l)),
                                                 inv[i].ev, inv[i].resp))

IsPrefix(p, q) == Len(p) <= Len(q) /\ SubSeq(q, 1, Len(p)) = p

\* A start action that starts a thread.
StartsThread == ~bot_started /\ bot_started'

\* C15: every step either keeps all the entries of the buffer in place, so
\* that what get_logs returned is the beginning of what it returns next, or
\* is a start action that starts a thread and leaves the buffer empty.
C15_AppendOnlyBetweenStarts ==
    [][\/ /\ IsPrefix(buffer, buffer')
          /\ IsPrefix(get_logs(buffer), get_logs(buffer'))
       \/ StartsThread /\ buffer' = <<>>]_vars

\* C15 as stated: no step removes or moves an entry of the buffer.
C15_AppendOnly ==
    [][IsPrefix(buffer, buffer')]_vars

\* A second thread is running and has written its lines to the buffer, which
\* no longer holds the failure the first thread had written.
C15_Witness ==
    /\ thr[1].status = "dead"
    /\ thr[2].status = "listening"
    /\ Len(buffer) >= 5
    /\ buffer[1] = StartedMsg \o "\n"
    /\ \A k \in 1..Len(buffer) :
          buffer[k] # "CRITICAL ERROR: Critical error in bot thread: "
                      \o TransportError \o "\n"
    /\ LoggedFatal(1, "Critical error in bot thread: ", TransportError)

\* C16: while a listener thread is alive and bot_started is false, which is
\* the case after a reset, no step makes bot_started true, starts a thread or
\* changes the configuration of any thread: a start action only answers
\* "already running" and a newly saved configuration reaches no listener.
C16_NoStartWhileThreadLives ==
    [][(LiveThreads # {} /\ ~bot_started)
         => /\ ~bot_started'
            /\ \A t \in Threads :
                  /\ thr'[t].config = thr[t].config
                  /\ thr[t].status = "unstarted" => thr'[t].status = "unstarted"]_vars

\* After a reset the operator saved another table name and pressed start:
\* the page answers "already running", the live thread keeps the table it
\* was started with and bot_started is false.
C16_Witness ==
    /\ bot_thread \in LiveThreads
    /\ ~bot_started
    /\ env_vars_confirmed
    /\ ui_feedback = AlreadyRunning
    /\ config[TableKey] # thr[bot_thread].config[TableKey]
    /\ \A t \in Threads : t # bot_thread => thr[t].status = "unstarted"

\* C17: whenever bot_started is true, env_vars_confirmed is true, a complete
\* configuration is stored and bot_thread names a thread that was started;
\* and the step that makes bot_started false makes env_vars_confirmed false
\* with it.
C17_StartedImpliesConfigured ==
    /\ [](bot_started =>
             /\ env_vars_confirmed
             /\ Complete(config)
             /\ bot_thread \in Threads
             /\ thr[bot_thread].status # "unstarted")
    /\ [][(bot_started /\ ~bot_started')
            => (env_vars_confirmed /\ ~env_vars_confirmed')]_vars

\* bot_started is true for the second thread of the session, started after
\* a reset, which has ended.
C17_Witness ==
    /\ bot_started
    /\ env_vars_confirmed
    /\ bot_thread = 2
    /\ thr[2].status = "dead"
    /\ thr[1].status = "dead"

\* C18: a start action starts its thread, and so runs clear_logs, only when
\* no listener thread is alive, and no other step removes an entry: the
\* buffer never loses an entry while a listener thread is alive.
C18_ClearedOnlyWithoutLiveThread ==
    /\ [][StartsThread => LiveThreads = {}]_vars
    /\ [][~IsPrefix(buffer, buffer') => (StartsThread /\ LiveThreads = {})]_vars

\* A start action has just emptied the buffer the first thread, now ended,
\* had written to, and started the second thread.
C18_Witness ==
    /\ buffer = <<>>
    /\ bot_started
    /\ bot_thread = 2
    /\ thr[2].status = "started"
    /\ thr[1].status = "dead"
    /\ log[1] # <<>>

====
